---- MODULE Spec2Model ----
(***************************************************************************)
(* A model of comics-n-stuff-gql: the per-request DataLoader registry      *)
(* (src/lib/loaders.ts), the context that builds it (src/index.ts) and the *)
(* field resolvers (src/graphql/resolvers/index.ts).                       *)
(*                                                                         *)
(* Spec        the loader registry: load calls, batching, storage fetches  *)
(* SpecResolve field resolution of one operation and its response          *)
(***************************************************************************)
EXTENDS Integers, Sequences, FiniteSets, TLC

\* ------------------------------------------------------------------ bounds

\* At most MaxCalls load calls are issued over all operations to the by-ID
\* loaders, and at most MaxParentCalls to the parent-keyed loaders.
MaxCalls == 3
MaxParentCalls == 2
\* At most MaxWrites writes reach the database while the operations run.
MaxWrites == 1
\* The validation and clamp functions are called with search texts of up to
\* MaxSearchInput characters, limits from -MaxNegInput to MaxLimitInput and
\* offsets from -MaxNegInput to MaxOffsetInput.
MaxSearchInput == 202
MaxLimitInput == 102
MaxOffsetInput == 3
MaxNegInput == 2
\* A client sends at most MaxQueries list queries, and a writer commits at most
\* MaxTableWrites changes to the table they read.
MaxQueries == 2
MaxTableWrites == 1

\* The relationship fields whose resolution is followed to the response.
MaxRequests == 2

\* The fetch-covers script is run at most MaxRuns times, and a call of cvFetch
\* is followed for at most MaxCvRequests requests.
MaxRuns == 2
MaxCvRequests == 3

\* The keys (primary keys / foreign keys) the operations ask for: key 1 has a
\* row in every by-ID table and undeleted children, key 2 has neither.
Keys == {1, 2}

\* Two inbound operations handled by the one process.
Ops == {"opA", "opB"}
NoOp == "none"

\* ------------------------------------------------------------------ storage

\* createByIdLoader instances (two of the eleven; all share one batch function).
ByIdLoaders == {"publisher", "country"}
\* The one-to-many loaders.
ParentLoaders == {"storiesByIssueId", "creditsByStoryId", "nameDetailsByCreatorId"}
Loaders == ByIdLoaders \cup ParentLoaders

\* The table each loader's fetch reads.
TableOf(l) ==
  CASE l = "publisher" -> "publisher"
    [] l = "country" -> "country"
    [] l = "storiesByIssueId" -> "story"
    [] l = "creditsByStoryId" -> "storyCredit"
    [] l = "nameDetailsByCreatorId" -> "creatorNameDetail"

Tables == {"publisher", "country", "story", "storyCredit", "creatorNameDetail"}

\* A record of any table: its primary key, the foreign key to its parent, its
\* sort attribute (sequenceNumber of a story), the soft-delete flag, and a
\* version that stands for the rest of its columns.
Row(i, p, s, d, v) == [id |-> i, parent |-> p, seq |-> s, deleted |-> d, ver |-> v]

\* The children present: parent 1 has two live children whose primary-key order
\* differs from their sort order; the last parent has only a soft-deleted child.
ChildRows ==
  { Row(1, 1, 2, 0, 0), Row(2, 1, 1, 0, 0), Row(3, 2, 1, 1, 0) }

\* The database as the operations first see it: entity 1 exists in the by-ID
\* tables, every other key has no record yet.
InitDb ==
  [t \in Tables |->
     IF t \in {"publisher", "country"} THEN { Row(1, 0, 0, 0, 0) } ELSE ChildRows]

\* ------------------------------------------------------------------ values

Null == [kind |-> "null", rows |-> << >>]
NoValue == [kind |-> "none", rows |-> << >>]
ErrorValue == [kind |-> "error", rows |-> << >>]
RowValue(r) == [kind |-> "row", rows |-> <<r>>]
ListValue(s) == [kind |-> "list", rows |-> s]

\* All orders in which a set of rows can be returned.
RECURSIVE Perms(_)
Perms(S) ==
  IF S = {} THEN { << >> }
  ELSE UNION { { <<x>> \o p : p \in Perms(S \ {x}) } : x \in S }

SortedBySeq(s) == \A i \in 1..Len(s) : \A j \in i..Len(s) : s[i].seq <= s[j].seq

SeqToSet(s) == { s[i] : i \in 1..Len(s) }

Max(S) == CHOOSE x \in S : \A y \in S : y <= x

\* ------------------------------------------------------------------ state

VARIABLES
  db,        \* the database: table -> set of rows
  nWrites,   \* writes applied so far
  cache,     \* DataLoader._promiseCache: registry -> loader -> key -> promise (0: none)
  batch,     \* DataLoader._batch: registry -> loader -> the batch being collected
  promises,  \* every promise a loader created, in creation order
  fetches,   \* every call of a batch function (one storage fetch each), in order
  calls,     \* every load call: who called, for what, and the promise returned
  running,   \* the operation whose synchronous code is executing, or NoOp
  turnNo     \* number of the current (or last) synchronous turn

loaderVars == <<db, nWrites, cache, batch, promises, fetches, calls, running, turnNo>>

VARIABLES
  production,    \* process.env.NODE_ENV === "production"
  fieldState,    \* item -> relationship field -> where its resolver stands
  prismaCalls,   \* relationship field -> findUnique calls its resolvers issued
  consoleErrors, \* console.error calls made by withErrorHandling
  loggerErrors,  \* logger.error calls made by formatError
  response       \* the response of the operation, once assembled

resolveVars == <<production, fieldState, prismaCalls, consoleErrors, loggerErrors, response>>

VARIABLES
  tables,        \* list query -> the rows of the table it reads
  tableVer,      \* writes committed to the tables so far
  txn,           \* the list query in progress and its $transaction
  prev,          \* the result of the list query answered before the last
  last,          \* the result of the list query answered last
  nQueries,      \* list queries received
  call           \* the last call of a validation or clamp function
listVars == <<tables, tableVer, txn, prev, last, nQueries, call>>

VARIABLES
  relCall,       \* the relationship resolver awaiting its storage call
  answered       \* the relationship fields resolved so far and what came of them

errorVars == <<relCall, answered>>

VARIABLES
  covers,        \* issue -> its coverImageUrl is set
  run,           \* the run of the fetch-covers script: where main stands, its counters
  cvCall,        \* the call of cvFetch that main awaits
  uploadLog      \* the uploads to Cloudinary that settled

coverVars == <<covers, run, cvCall, uploadLog>>

vars == <<loaderVars, resolveVars, listVars, errorVars, coverVars>>

\* ------------------------------------------------------------------ queries

\* prisma.<model>.findMany({ where: { id: { in: ids } } }): the matching rows,
\* in an order the database chooses.
FindManyById(t, ids) ==
  Perms({ r \in db[t] : r.id \in SeqToSet(ids) })

\* prisma.story.findMany({ where: { issueId: { in }, deleted: 0 },
\*                         orderBy: { sequenceNumber: "asc" } })
FindStories(issueIds) ==
  { p \in Perms({ r \in db["story"] : r.parent \in SeqToSet(issueIds) /\ r.deleted = 0 }) :
      SortedBySeq(p) }

\* prisma.storyCredit.findMany({ where: { storyId: { in }, deleted: 0 } }): no orderBy.
FindCredits(storyIds) ==
  Perms({ r \in db["storyCredit"] : r.parent \in SeqToSet(storyIds) /\ r.deleted = 0 })

\* prisma.creatorNameDetail.findMany({ where: { creatorId: { in }, deleted: 0 } }): no orderBy.
FindNameDetails(creatorIds) ==
  Perms({ r \in db["creatorNameDetail"] :
            r.parent \in SeqToSet(creatorIds) /\ r.deleted = 0 })

FindMany(l, keys) ==
  CASE l \in ByIdLoaders -> FindManyById(TableOf(l), keys)
    [] l = "storiesByIssueId" -> FindStories(keys)
    [] l = "creditsByStoryId" -> FindCredits(keys)
    [] l = "nameDetailsByCreatorId" -> FindNameDetails(keys)

\* ------------------------------------------------------------------ batch functions

\* new Map(items.map((item) => [item.id, item])).get(id): a later item of the
\* same id replaces an earlier one; undefined when there is none.
MapGet(items, id) ==
  LET at == { i \in 1..Len(items) : items[i].id = id }
  IN IF at = {} THEN Null ELSE RowValue(items[Max(at)])

\* A plausible bug: results taken by position, as if the fetch kept key order.
ByIdBatchFnPositional(ids, items) ==
  [i \in 1..Len(ids) |-> IF i <= Len(items) THEN RowValue(items[i]) ELSE Null]

\* createByIdLoader's batch function, after findMany returned items:
\* ids.map((id) => map.get(id) ?? null)
ByIdBatchFn(ids, items) ==
  [i \in 1..Len(ids) |-> MapGet(items, ids[i])]

EmptyMap == [k \in {} |-> << >>]

\* A plausible bug: list.unshift(row) in place of list.push(row).
RECURSIVE GroupRowsUnshift(_, _, _)
GroupRowsUnshift(rows, i, map) ==
  IF i > Len(rows) THEN map
  ELSE LET r == rows[i]
           list == IF r.parent \in DOMAIN map THEN map[r.parent] ELSE << >>
       IN GroupRowsUnshift(rows, i + 1,
            [k \in DOMAIN map \cup {r.parent} |->
               IF k = r.parent THEN <<r>> \o list ELSE map[k]])

\* for (const row of rows) { const list = map.get(row.fk) ?? [];
\*                           list.push(row); map.set(row.fk, list); }
RECURSIVE GroupRows(_, _, _)
GroupRows(rows, i, map) ==
  IF i > Len(rows) THEN map
  ELSE LET r == rows[i]
           list == IF r.parent \in DOMAIN map THEN map[r.parent] ELSE << >>
       IN GroupRows(rows, i + 1,
            [k \in DOMAIN map \cup {r.parent} |->
               IF k = r.parent THEN Append(list, r) ELSE map[k]])

\* A plausible bug: map.get(id) ?? null.
StoriesBatchFnNull(issueIds, stories) ==
  LET map == GroupRows(stories, 1, EmptyMap)
  IN [i \in 1..Len(issueIds) |->
        IF issueIds[i] \in DOMAIN map THEN ListValue(map[issueIds[i]]) ELSE Null]

\* storiesByIssueId: issueIds.map((id) => map.get(id) ?? [])
StoriesBatchFn(issueIds, stories) ==
  LET map == GroupRows(stories, 1, EmptyMap)
  IN [i \in 1..Len(issueIds) |->
        ListValue(IF issueIds[i] \in DOMAIN map THEN map[issueIds[i]] ELSE << >>)]

\* creditsByStoryId: storyIds.map((id) => map.get(id) ?? [])
CreditsBatchFn(storyIds, credits) ==
  LET map == GroupRows(credits, 1, EmptyMap)
  IN [i \in 1..Len(storyIds) |->
        ListValue(IF storyIds[i] \in DOMAIN map THEN map[storyIds[i]] ELSE << >>)]

\* nameDetailsByCreatorId: creatorIds.map((id) => map.get(id) ?? [])
NameDetailsBatchFn(creatorIds, details) ==
  LET map == GroupRows(details, 1, EmptyMap)
  IN [i \in 1..Len(creatorIds) |->
        ListValue(IF creatorIds[i] \in DOMAIN map THEN map[creatorIds[i]] ELSE << >>)]

\* The values a loader's batch function returns for keys, given the fetched rows.
BatchFn(l, keys, rows) ==
  CASE l \in ByIdLoaders -> ByIdBatchFn(keys, rows)
    [] l = "storiesByIssueId" -> StoriesBatchFn(keys, rows)
    [] l = "creditsByStoryId" -> CreditsBatchFn(keys, rows)
    [] l = "nameDetailsByCreatorId" -> NameDetailsBatchFn(keys, rows)

\* ------------------------------------------------------------------ registry

\* A plausible bug: one registry built at start-up and shared by every request.
SharedLoaders(o) == "opA"

\* context: async () => ({ loaders: createLoaders() }): the registry an operation
\* resolves with is built for it alone (named here by the operation).
ContextLoaders(o) == o

NoBatch == [open |-> FALSE, keys |-> << >>, pids |-> << >>, turn |-> 0, born |-> 0]

\* createLoaders(): every loader starts with an empty cache and no batch.
CreateLoaders ==
  [cache |-> [l \in Loaders |-> [k \in Keys |-> 0]],
   batch |-> [l \in Loaders |-> NoBatch]]

InitLoaders ==
  /\ db = InitDb
  /\ nWrites = 0
  /\ cache = [g \in Ops |-> CreateLoaders.cache]
  /\ batch = [g \in Ops |-> CreateLoaders.batch]
  /\ promises = << >>
  /\ fetches = << >>
  /\ calls = << >>
  /\ running = NoOp
  /\ turnNo = 0

\* A batch is scheduled (enqueuePostPromiseJob) and has not been dispatched yet.
Scheduled == \E g \in Ops, l \in Loaders : batch[g][l].open

\* The number of load calls after which loader l receives no more.
CallLimit(l) == IF l \in ParentLoaders THEN MaxParentCalls ELSE MaxCalls

\* The event loop takes up a task of operation o (its request arrived, or a
\* promise it awaits settled), while fewer than n load calls were made. opA
\* names the operation that makes the first load call. Scheduled dispatches
\* run first: they were queued with process.nextTick, ahead of any I/O callback.
BeginTurn(o, n) ==
  /\ running = NoOp
  /\ (o # "opA" => \E i \in 1..Len(calls) : calls[i].op = "opA")
  /\ ~Scheduled
  /\ Len(calls) < n
  /\ running' = o
  /\ turnNo' = turnNo + 1
  /\ UNCHANGED <<db, nWrites, cache, batch, promises, fetches, calls, resolveVars, listVars, errorVars, coverVars>>

\* A plausible bug: only a settled promise counts as cached, a key whose fetch
\* is pending is queued again.
LoadSettledOnly(o, l, k) ==
  LET g == ContextLoaders(o)
      cur == IF batch[g][l].open THEN batch[g][l]
             ELSE [open |-> TRUE, keys |-> << >>, pids |-> << >>, turn |-> turnNo,
                   born |-> Len(calls) + 1]
      hit == IF cache[g][l][k] = 0 THEN 0
             ELSE IF promises[cache[g][l][k]].state = "pending" THEN 0
             ELSE cache[g][l][k]
      pid == Len(promises) + 1
  IN /\ running = o
     /\ Len(calls) < CallLimit(l)
     /\ IF hit # 0
        THEN /\ batch' = [batch EXCEPT ![g][l] = cur]
             /\ calls' = Append(calls,
                  [op |-> o, loader |-> l, key |-> k, pid |-> hit, turn |-> turnNo])
             /\ UNCHANGED <<cache, promises>>
        ELSE /\ promises' = Append(promises,
                  [reg |-> g, loader |-> l, key |-> k, state |-> "pending",
                   value |-> NoValue, fetch |-> 0])
             /\ cache' = [cache EXCEPT ![g][l][k] = pid]
             /\ batch' = [batch EXCEPT ![g][l] =
                  [cur EXCEPT !.keys = Append(@, k), !.pids = Append(@, pid)]]
             /\ calls' = Append(calls,
                  [op |-> o, loader |-> l, key |-> k, pid |-> pid, turn |-> turnNo])
     /\ UNCHANGED <<db, nWrites, fetches, running, turnNo, resolveVars, listVars, errorVars, coverVars>>

\* A plausible bug: no cache lookup, every load queues its key.
LoadNoCache(o, l, k) ==
  LET g == ContextLoaders(o)
      cur == IF batch[g][l].open THEN batch[g][l]
             ELSE [open |-> TRUE, keys |-> << >>, pids |-> << >>, turn |-> turnNo,
                   born |-> Len(calls) + 1]
      pid == Len(promises) + 1
  IN /\ running = o
     /\ Len(calls) < CallLimit(l)
     /\ promises' = Append(promises,
          [reg |-> g, loader |-> l, key |-> k, state |-> "pending",
           value |-> NoValue, fetch |-> 0])
     /\ cache' = [cache EXCEPT ![g][l][k] = pid]
     /\ batch' = [batch EXCEPT ![g][l] =
          [cur EXCEPT !.keys = Append(@, k), !.pids = Append(@, pid)]]
     /\ calls' = Append(calls,
          [op |-> o, loader |-> l, key |-> k, pid |-> pid, turn |-> turnNo])
     /\ UNCHANGED <<db, nWrites, fetches, running, turnNo, resolveVars, listVars, errorVars, coverVars>>

\* context.loaders.<l>.load(k), called by operation o's running code.
\* DataLoader.load: take the current batch (a new one is scheduled when there is
\* none, or the last one was dispatched); a cached promise is returned as it is;
\* otherwise the key joins the batch and its new promise is cached.
Load(o, l, k) ==
  LET g == ContextLoaders(o)
      cur == IF batch[g][l].open THEN batch[g][l]
             ELSE [open |-> TRUE, keys |-> << >>, pids |-> << >>, turn |-> turnNo,
                   born |-> Len(calls) + 1]
      hit == cache[g][l][k]
      pid == Len(promises) + 1
  IN /\ running = o
     /\ Len(calls) < CallLimit(l)
     /\ IF hit # 0
        THEN /\ batch' = [batch EXCEPT ![g][l] = cur]
             /\ calls' = Append(calls,
                  [op |-> o, loader |-> l, key |-> k, pid |-> hit, turn |-> turnNo])
             /\ UNCHANGED <<cache, promises>>
        ELSE /\ promises' = Append(promises,
                  [reg |-> g, loader |-> l, key |-> k, state |-> "pending",
                   value |-> NoValue, fetch |-> 0])
             /\ cache' = [cache EXCEPT ![g][l][k] = pid]
             /\ batch' = [batch EXCEPT ![g][l] =
                  [cur EXCEPT !.keys = Append(@, k), !.pids = Append(@, pid)]]
             /\ calls' = Append(calls,
                  [op |-> o, loader |-> l, key |-> k, pid |-> pid, turn |-> turnNo])
     /\ UNCHANGED <<db, nWrites, fetches, running, turnNo, resolveVars, listVars, errorVars, coverVars>>

\* The running code awaits: control returns to the event loop.
EndTurn ==
  /\ running # NoOp
  /\ Len(calls) > 0 /\ calls[Len(calls)].turn = turnNo
  /\ running' = NoOp
  /\ UNCHANGED <<db, nWrites, cache, batch, promises, fetches, calls, turnNo,
               resolveVars, listVars, errorVars, coverVars>>

\* dispatchBatch, run from the process.nextTick queue in the order the batches
\* were scheduled: the batch is closed; with no keys (cache hits only) nothing
\* is fetched, otherwise the batch function is called once with the keys, which
\* calls findMany once.
Dispatch(g, l) ==
  LET b == batch[g][l]
      f == Len(fetches) + 1
  IN /\ running = NoOp
     /\ b.open
     /\ \A g2 \in Ops, l2 \in Loaders : batch[g2][l2].open => b.born <= batch[g2][l2].born
     /\ batch' = [batch EXCEPT ![g][l].open = FALSE]
     /\ IF b.keys = << >>
        THEN UNCHANGED <<fetches, promises>>
        ELSE /\ fetches' = Append(fetches,
                  [reg |-> g, loader |-> l, keys |-> b.keys, pids |-> b.pids,
                   status |-> "inflight", rows |-> << >>, turn |-> b.turn,
                   settled |-> 0])
             /\ promises' = [p \in 1..Len(promises) |->
                  IF p \in SeqToSet(b.pids) THEN [promises[p] EXCEPT !.fetch = f]
                  ELSE promises[p]]
     /\ UNCHANGED <<db, nWrites, cache, calls, running, turnNo, resolveVars, listVars, errorVars, coverVars>>

\* The position of promise p among the promises of fetch f.
PosOf(f, p) == CHOOSE i \in 1..Len(fetches[f].pids) : fetches[f].pids[i] = p

\* findMany returned rows: the batch function maps them to one value per key and
\* DataLoader resolves each key's promise with its value.
FetchOk(f) ==
  /\ running = NoOp
  /\ ~Scheduled
  /\ fetches[f].status = "inflight"
  /\ \E rows \in FindMany(fetches[f].loader, fetches[f].keys) :
       LET values == BatchFn(fetches[f].loader, fetches[f].keys, rows)
       IN /\ fetches' = [fetches EXCEPT ![f].status = "ok", ![f].rows = rows,
                                         ![f].settled = turnNo]
          /\ promises' = [p \in 1..Len(promises) |->
               IF p \in SeqToSet(fetches[f].pids)
               THEN [promises[p] EXCEPT !.state = "value", !.value = values[PosOf(f, p)]]
               ELSE promises[p]]
  /\ UNCHANGED <<db, nWrites, cache, batch, calls, running, turnNo, resolveVars, listVars, errorVars, coverVars>>

\* A plausible bug (or a different cache policy): the rejected promises stay cached.
FetchFailKeepCache(f) ==
  /\ running = NoOp
  /\ ~Scheduled
  /\ fetches[f].status = "inflight"
  /\ fetches' = [fetches EXCEPT ![f].status = "failed", ![f].settled = turnNo]
  /\ promises' = [p \in 1..Len(promises) |->
       IF p \in SeqToSet(fetches[f].pids)
       THEN [promises[p] EXCEPT !.state = "error", !.value = ErrorValue]
       ELSE promises[p]]
  /\ UNCHANGED <<db, nWrites, cache, batch, calls, running, turnNo, resolveVars, listVars, errorVars, coverVars>>

\* A plausible bug: the failure of one batch rejects every pending promise.
FetchFailAll(f) ==
  /\ running = NoOp
  /\ ~Scheduled
  /\ fetches[f].status = "inflight"
  /\ fetches' = [fetches EXCEPT ![f].status = "failed", ![f].settled = turnNo]
  /\ cache' = [cache EXCEPT ![fetches[f].reg][fetches[f].loader] =
       [k \in Keys |-> IF k \in SeqToSet(fetches[f].keys) THEN 0 ELSE @[k]]]
  /\ promises' = [p \in 1..Len(promises) |->
       IF promises[p].state = "pending"
       THEN [promises[p] EXCEPT !.state = "error", !.value = ErrorValue]
       ELSE promises[p]]
  /\ UNCHANGED <<db, nWrites, batch, calls, running, turnNo, resolveVars, listVars, errorVars, coverVars>>

\* findMany rejected (storage failure): the batch function rejects, and
\* DataLoader's failedDispatch clears every key of the batch from the cache and
\* rejects its promise with the error.
FetchFail(f) ==
  /\ running = NoOp
  /\ ~Scheduled
  /\ fetches[f].status = "inflight"
  /\ fetches' = [fetches EXCEPT ![f].status = "failed", ![f].settled = turnNo]
  /\ cache' = [cache EXCEPT ![fetches[f].reg][fetches[f].loader] =
       [k \in Keys |-> IF k \in SeqToSet(fetches[f].keys) THEN 0 ELSE @[k]]]
  /\ promises' = [p \in 1..Len(promises) |->
       IF p \in SeqToSet(fetches[f].pids)
       THEN [promises[p] EXCEPT !.state = "error", !.value = ErrorValue]
       ELSE promises[p]]
  /\ UNCHANGED <<db, nWrites, batch, calls, running, turnNo, resolveVars, listVars, errorVars, coverVars>>

\* Another client of the database inserts or updates the record k of a by-ID
\* table while the operations run.
Write(t, k) ==
  /\ running = NoOp
  /\ ~Scheduled
  /\ nWrites < MaxWrites
  /\ nWrites' = nWrites + 1
  /\ db' = [db EXCEPT ![t] =
       { r \in @ : r.id # k } \cup { Row(k, 0, 0, 0, nWrites + 1) }]
  /\ UNCHANGED <<cache, batch, promises, fetches, calls, running, turnNo, resolveVars, listVars, errorVars, coverVars>>

\* ------------------------------------------------------------------ arguments

\* An optional argument of a resolver: absent (undefined) or given with a value.
Absent == [given |-> FALSE, val |-> 0]
Given(v) == [given |-> TRUE, val |-> v]

\* JavaScript truthiness of an optional number and of an optional string (a
\* string is the sequence of its characters): undefined, 0 and "" are falsy.
TruthyNum(a) == a.given /\ a.val # 0
TruthyStr(a) == a.given /\ a.val # << >>

\* "c".repeat(n)
Repeat(c, n) == [i \in 1..n |-> c]

Min(a, b) == IF a <= b THEN a ELSE b

DEFAULT_LIMIT == 20
MAX_LIMIT == 100
MAX_SEARCH_LENGTH == 200

\* The outcome of a validation function: it returns, or throws a GraphQLError
\* with the code BAD_USER_INPUT.
Returned == [code |-> "none", about |-> "none"]
BadUserInput(what) == [code |-> "BAD_USER_INPUT", about |-> what]

\* A plausible bug: the length 200 itself is refused.
validateSearchAtMost199(search) ==
  IF TruthyStr(search) /\ Len(search.val) >= MAX_SEARCH_LENGTH
  THEN BadUserInput("search") ELSE Returned

\* if (search && search.length > MAX_SEARCH_LENGTH) throw ...
validateSearch(search) ==
  IF TruthyStr(search) /\ Len(search.val) > MAX_SEARCH_LENGTH
  THEN BadUserInput("search") ELSE Returned

Digits == {"0", "1", "2", "3", "4", "5", "6", "7", "8", "9"}

\* DATE_PATTERN = /^\d{4}-\d{2}-\d{2}$/ tested on the whole string.
DATE_PATTERN(s) ==
  /\ Len(s) = 10
  /\ \A i \in {1, 2, 3, 4, 6, 7, 9, 10} : s[i] \in Digits
  /\ s[5] = "-" /\ s[8] = "-"

\* if (value && !DATE_PATTERN.test(value)) throw ...
validateDate(value) ==
  IF TruthyStr(value) /\ ~DATE_PATTERN(value.val)
  THEN BadUserInput("date") ELSE Returned

\* A plausible bug: the upper bound of the limit is not checked.
validatePaginationNoUpper(limit, offset) ==
  IF limit.given /\ limit.val < 1 THEN BadUserInput("limit")
  ELSE IF offset.given /\ offset.val < 0 THEN BadUserInput("offset")
  ELSE Returned

\* A plausible bug: the bounds 1 and 100 themselves are refused.
validatePaginationStrict(limit, offset) ==
  IF limit.given /\ (limit.val <= 1 \/ limit.val >= MAX_LIMIT) THEN BadUserInput("limit")
  ELSE IF offset.given /\ offset.val < 0 THEN BadUserInput("offset")
  ELSE Returned

\* if (limit !== undefined && (limit < 1 || limit > MAX_LIMIT)) throw ...
\* if (offset !== undefined && offset < 0) throw ...
validatePagination(limit, offset) ==
  IF limit.given /\ (limit.val < 1 \/ limit.val > MAX_LIMIT) THEN BadUserInput("limit")
  ELSE IF offset.given /\ offset.val < 0 THEN BadUserInput("offset")
  ELSE Returned

\* A plausible bug: no cap.
clampLimitNoCap(limit) ==
  IF ~TruthyNum(limit) \/ limit.val < 1 THEN DEFAULT_LIMIT ELSE limit.val

\* if (!limit || limit < 1) return DEFAULT_LIMIT; return Math.min(limit, MAX_LIMIT);
clampLimit(limit) ==
  IF ~TruthyNum(limit) \/ limit.val < 1 THEN DEFAULT_LIMIT
  ELSE Min(limit.val, MAX_LIMIT)

\* return offset && offset > 0 ? offset : 0;
clampOffset(offset) ==
  IF TruthyNum(offset) /\ offset.val > 0 THEN offset.val ELSE 0

\* ------------------------------------------------------------------ calls of the functions

NoCall == [fn |-> "none", args |-> << >>, result |-> 0]

SearchInputs == {Absent} \cup { Given(Repeat("a", n)) : n \in 0..MaxSearchInput }
LimitInputs == {Absent} \cup { Given(n) : n \in (0 - MaxNegInput)..MaxLimitInput }
OffsetInputs == {Absent} \cup { Given(n) : n \in (0 - MaxNegInput)..MaxOffsetInput }

\* Date arguments: the dates and the other strings of the tests, the empty
\* string, and every string one edit away from a date (a character replaced,
\* dropped or appended).
TestDates == { <<"1", "9", "8", "6", "-", "0", "2", "-", "0", "1">>,
               <<"2", "0", "0", "0", "-", "1", "2", "-", "3", "1">> }
TestNonDates == { <<"0", "2", "/", "0", "1", "/", "1", "9", "8", "6">>,
                  <<"1", "9", "8", "6">>,
                  <<"n", "o", "t", "-", "a", "-", "d", "a", "t", "e">> }
EditChars == {"0", "7", "-", "/", "a", " "}
Replaced(d, i, c) == [j \in 1..Len(d) |-> IF j = i THEN c ELSE d[j]]
Dropped(d, i) == [j \in 1..(Len(d) - 1) |-> IF j < i THEN d[j] ELSE d[j + 1]]
DateStrings ==
  TestDates \cup TestNonDates \cup { << >> }
  \cup { Replaced(d, i, c) : d \in TestDates, i \in 1..10, c \in EditChars }
  \cup { Dropped(d, i) : d \in TestDates, i \in 1..10 }
  \cup { Append(d, c) : d \in TestDates, c \in EditChars }
  \cup { <<c>> \o d : d \in TestDates, c \in EditChars }
DateInputs == {Absent} \cup { Given(d) : d \in DateStrings }

UnchangedButCall ==
  UNCHANGED <<loaderVars, resolveVars, tables, tableVer, txn, prev, last, nQueries,
              errorVars, coverVars>>

CallValidateSearch(search) ==
  /\ call' = [fn |-> "validateSearch", args |-> <<search>>,
              result |-> validateSearch(search)]
  /\ UnchangedButCall

CallValidateDate(value) ==
  /\ call' = [fn |-> "validateDate", args |-> <<value>>, result |-> validateDate(value)]
  /\ UnchangedButCall

CallValidatePagination(limit, offset) ==
  /\ call' = [fn |-> "validatePagination", args |-> <<limit, offset>>,
              result |-> validatePagination(limit, offset)]
  /\ UnchangedButCall

CallClampLimit(limit) ==
  /\ call' = [fn |-> "clampLimit", args |-> <<limit>>, result |-> clampLimit(limit)]
  /\ UnchangedButCall

CallClampOffset(offset) ==
  /\ call' = [fn |-> "clampOffset", args |-> <<offset>>, result |-> clampOffset(offset)]
  /\ UnchangedButCall

\* The three pagination functions applied to the same arguments.
CallValidateThenClamp(limit, offset) ==
  /\ call' = [fn |-> "validateThenClamp", args |-> <<limit, offset>>,
              result |-> [validation |-> validatePagination(limit, offset),
                          take |-> clampLimit(limit),
                          skip |-> clampOffset(offset)]]
  /\ UnchangedButCall

NextValidate ==
  \/ \E search \in SearchInputs : CallValidateSearch(search)
  \/ \E value \in DateInputs : CallValidateDate(value)
  \/ \E limit \in LimitInputs, offset \in OffsetInputs : CallValidatePagination(limit, offset)
  \/ \E limit \in LimitInputs : CallClampLimit(limit)
  \/ \E offset \in OffsetInputs : CallClampOffset(offset)
  \/ \E limit \in LimitInputs, offset \in OffsetInputs : CallValidateThenClamp(limit, offset)

\* ------------------------------------------------------------------ list queries

ListQueries == {"publishers", "allSeries", "issues", "stories", "creators"}

\* A row of the table a list query reads, by the attributes the queries use:
\* its id, the attribute the query orders by (name, sortName, sortCode,
\* sequenceNumber), the deleted flag, the foreign key the query filters on
\* (publisherId, seriesId, issueId), the name searched, the key date and the
\* on-sale date, and variantOfId (0: null).
ListRow(i, s, d, p, n, k, v) ==
  [id |-> i, sort |-> s, deleted |-> d, parent |-> p, name |-> n, keyDate |-> k,
   onSaleDate |-> k, variantOf |-> v]

Date1 == <<"1", "9", "8", "6", "-", "0", "2", "-", "0", "1">>
Date2 == <<"2", "0", "0", "0", "-", "1", "2", "-", "3", "1">>

\* Two undeleted rows equal in the sort attribute, a third one, a deleted row
\* and a variant.
InitRows ==
  { ListRow(1, 1, 0, 1, <<"a">>, Date1, 0),
    ListRow(2, 1, 0, 1, <<"a">>, Date1, 0),
    ListRow(3, 2, 0, 2, <<"b">>, Date2, 0),
    ListRow(4, 3, 1, 1, <<"a">>, Date1, 0),
    ListRow(5, 0, 0, 1, <<"a", "b">>, Date1, 1) }

\* The row a writer inserts.
NewRow == ListRow(6, 1, 0, 1, <<"a">>, Date1, 0)

\* The arguments of a list query; an argument the query does not declare is
\* absent.
ListArgs(limit, offset, search, parentId, keyDate, onSaleDate) ==
  [limit |-> limit, offset |-> offset, search |-> search, parentId |-> parentId,
   keyDate |-> keyDate, onSaleDate |-> onSaleDate]

PageLimits == {Absent, Given(0), Given(1)}
PageOffsets == {Absent, Given(0 - 1), Given(1), Given(7)}
SearchArgs == {Absent, Given(<<"a">>), Given(Repeat("a", MAX_SEARCH_LENGTH + 1))}
ParentArgs == {Absent, Given(0), Given(1)}
KeyDateArgs == {Absent, Given(<<"1", "9", "8", "6">>)}
OnSaleDateArgs == {Absent, Given(Date1)}

\* The arguments each list query declares.
ArgsOf(q) ==
  { ListArgs(l, o, s, p, k, d) :
      l \in PageLimits, o \in PageOffsets,
      s \in IF q \in {"publishers", "allSeries", "creators"} THEN SearchArgs ELSE {Absent},
      p \in IF q \in {"allSeries", "issues", "stories"} THEN ParentArgs ELSE {Absent},
      k \in IF q = "issues" THEN KeyDateArgs ELSE {Absent},
      d \in IF q = "issues" THEN OnSaleDateArgs ELSE {Absent} }

\* The filter arguments of two calls are the same.
SameFilter(a, b) ==
  /\ a.search = b.search /\ a.parentId = b.parentId
  /\ a.keyDate = b.keyDate /\ a.onSaleDate = b.onSaleDate

\* name: { contains: search, mode: "insensitive" }
Contains(name, search) ==
  \E i \in 0..(Len(name) - Len(search)) :
    \A j \in 1..Len(search) : name[i + j] = search[j]

\* A plausible bug: the where clause as it was before variants were filtered.
WhereWithVariants(q, args, r) ==
  /\ r.deleted = 0
  /\ TruthyStr(args.search) => Contains(r.name, args.search.val)
  /\ TruthyNum(args.parentId) => r.parent = args.parentId.val
  /\ TruthyStr(args.keyDate) => r.keyDate = args.keyDate.val
  /\ TruthyStr(args.onSaleDate) => r.onSaleDate = args.onSaleDate.val

\* The where clause the resolver builds: deleted: 0, variantOfId: null for
\* issues, and each filter argument that is truthy.
Where(q, args, r) ==
  /\ r.deleted = 0
  /\ q = "issues" => r.variantOf = 0
  /\ TruthyStr(args.search) => Contains(r.name, args.search.val)
  /\ TruthyNum(args.parentId) => r.parent = args.parentId.val
  /\ TruthyStr(args.keyDate) => r.keyDate = args.keyDate.val
  /\ TruthyStr(args.onSaleDate) => r.onSaleDate = args.onSaleDate.val

Matching(q, args, rows) == { r \in rows : Where(q, args, r) }

\* orderBy: { <sort attribute>: "asc" }: the rows in ascending order of the one
\* attribute; the order of rows equal in it is the database's choice.
SortedBySort(s) == \A i \in 1..Len(s) : \A j \in i..Len(s) : s[i].sort <= s[j].sort
OrderBy(rows) == { s \in Perms(rows) : SortedBySort(s) }

\* skip and take applied to the ordered rows.
Page(s, skip, take) == SubSeq(s, skip + 1, Min(Len(s), skip + take))

\* A plausible bug: the count is taken of the page.
ListCountOfPage(q, args, rows) ==
  Min(Cardinality(Matching(q, args, rows)), clampLimit(args.limit))

\* prisma.<table>.findMany({ take, skip, where, orderBy }): the possible answers.
ListFindMany(q, args, rows) ==
  { Page(s, clampOffset(args.offset), clampLimit(args.limit)) :
      s \in OrderBy(Matching(q, args, rows)) }

\* prisma.<table>.count({ where })
ListCount(q, args, rows) == Cardinality(Matching(q, args, rows))

NoTxn == [phase |-> "none"]
NoResult == [status |-> "none"]

\* The tables hold their rows and no list query was received yet.
ListStart ==
  /\ tables = [q \in ListQueries |-> InitRows]
  /\ tableVer = 0
  /\ txn = NoTxn
  /\ prev = NoResult
  /\ last = NoResult
  /\ nQueries = 0
  /\ call = NoCall

\* The state in which no list query is sent and the listed tables are left out.
ListIdle ==
  /\ tables = [q \in ListQueries |-> {}]
  /\ tableVer = 0
  /\ txn = NoTxn
  /\ prev = NoResult
  /\ last = NoResult
  /\ nQueries = 0
  /\ call = NoCall

UnchangedButList == UNCHANGED <<loaderVars, resolveVars, call, errorVars, coverVars>>

\* A client pages through one list: its queries are of one kind with one
\* filter, and vary in limit and offset.
SameList(q, args) ==
  IF last = NoResult THEN TRUE ELSE q = last.q /\ SameFilter(args, last.args)

\* The resolver of list query q is called with args: it builds the where clause
\* from the arguments as they are and hands findMany and count to
\* prisma.$transaction. No argument is validated first.
BeginQuery(q, args) ==
  /\ txn = NoTxn
  /\ nQueries < MaxQueries
  /\ SameList(q, args)
  /\ nQueries' = nQueries + 1
  /\ txn' = [phase |-> "findMany", q |-> q, args |-> args, items |-> << >>,
             verItems |-> 0]
  /\ UNCHANGED <<tables, tableVer, prev, last>>
  /\ UnchangedButList

\* The first statement of the transaction: findMany reads the table as
\* committed when the statement starts.
StmtFindMany ==
  /\ txn.phase = "findMany"
  /\ \E items \in ListFindMany(txn.q, txn.args, tables[txn.q]) :
       txn' = [txn EXCEPT !.phase = "count", !.items = items, !.verItems = tableVer]
  /\ UNCHANGED <<tables, tableVer, prev, last, nQueries>>
  /\ UnchangedButList

\* The second statement: count reads the table as committed when this
\* statement starts (the transaction is opened with no isolation level, and
\* PostgreSQL's default, READ COMMITTED, takes a snapshot per statement). The
\* transaction commits and the resolver returns { items, totalCount }.
StmtCount ==
  /\ txn.phase = "count"
  /\ last' = [status |-> "ok", q |-> txn.q, args |-> txn.args, items |-> txn.items,
              totalCount |-> ListCount(txn.q, txn.args, tables[txn.q]),
              counted |-> Matching(txn.q, txn.args, tables[txn.q]),
              verItems |-> txn.verItems, verCount |-> tableVer, statements |-> 2]
  /\ prev' = last
  /\ txn' = NoTxn
  /\ UNCHANGED <<tables, tableVer, nQueries>>
  /\ UnchangedButList

\* The table the client's queries read.
ClientTable == IF txn # NoTxn THEN txn.q ELSE last.q

\* Another session commits the deletion of row id from the table.
DeleteRow(id) ==
  /\ nQueries > 0
  /\ tableVer < MaxTableWrites
  /\ \E r \in tables[ClientTable] : r.id = id
  /\ tables' = [tables EXCEPT ![ClientTable] = { r \in @ : r.id # id }]
  /\ tableVer' = tableVer + 1
  /\ UNCHANGED <<txn, prev, last, nQueries>>
  /\ UnchangedButList

\* Another session commits the insertion of a row into the table.
InsertRow ==
  /\ nQueries > 0
  /\ tableVer < MaxTableWrites
  /\ NewRow \notin tables[ClientTable]
  /\ tables' = [tables EXCEPT ![ClientTable] = @ \cup {NewRow}]
  /\ tableVer' = tableVer + 1
  /\ UNCHANGED <<txn, prev, last, nQueries>>
  /\ UnchangedButList

\* A client paging through a list of a table nobody writes to.
NextList ==
  \/ \E q \in ListQueries : \E args \in ArgsOf(q) : BeginQuery(q, args)
  \/ StmtFindMany
  \/ StmtCount

\* A client asking for the first page of a list while a writer changes the table.
NextListWrites ==
  \/ \E q \in ListQueries :
       \E args \in { a \in ArgsOf(q) : a.offset = Absent } : BeginQuery(q, args)
  \/ StmtFindMany
  \/ StmtCount
  \/ \E id \in {1, 3} : DeleteRow(id)
  \/ InsertRow

\* Series.issues: prisma.issue.findMany({ where: { seriesId: parent.id,
\* deleted: 0, variantOfId: null }, take, skip, orderBy: { sortCode: "asc" } })
SeriesIssues(seriesId, limit, offset, rows) ==
  { Page(s, clampOffset(offset), clampLimit(limit)) :
      s \in OrderBy({ r \in rows :
                        r.parent = seriesId /\ r.deleted = 0 /\ r.variantOf = 0 }) }

\* Issue.variants: prisma.issue.findMany({ where: { variantOfId: parent.id,
\* deleted: 0 } }), in an order of the database's choice.
IssueVariants(id, rows) ==
  Perms({ r \in rows : r.variantOf = id /\ r.deleted = 0 })

\* The limits and offsets asked for here.
IssuePages == {Absent, Given(1)}

\* The series the issues belong to.
SeriesIds == { r.parent : r \in InitRows }

\* The Series.issues field of a series is resolved.
CallSeriesIssues(seriesId, limit, offset) ==
  /\ txn = NoTxn
  /\ \E items \in SeriesIssues(seriesId, limit, offset, tables["issues"]) :
       call' = [fn |-> "Series.issues", args |-> <<seriesId, limit, offset>>,
                result |-> items]
  /\ UnchangedButCall

\* The Issue.variants field of an issue of the table is resolved.
CallIssueVariants(id) ==
  /\ txn = NoTxn
  /\ id \in { r.id : r \in tables["issues"] }
  /\ \E items \in IssueVariants(id, tables["issues"]) :
       call' = [fn |-> "Issue.variants", args |-> <<id>>, result |-> items]
  /\ UnchangedButCall

\* A client lists issues and follows Series.issues and Issue.variants, over a
\* table nobody writes to.
NextIssues ==
  \/ \E args \in { a \in ArgsOf("issues") : a.limit \in IssuePages /\ a.offset \in IssuePages } :
       BeginQuery("issues", args)
  \/ StmtFindMany
  \/ StmtCount
  \/ \E p \in SeriesIds, l \in IssuePages, o \in IssuePages : CallSeriesIssues(p, l, o)
  \/ \E id \in { r.id : r \in InitRows } : CallIssueVariants(id)

\* ------------------------------------------------------------------ field resolution

\* The operation resolved here: allSeries { items { name publisher { .. }
\* publicationType { .. } } }, whose root field returned NumSiblings series.
NumSiblings == 3
Siblings == 1..NumSiblings

\* The relationship fields of Series selected, in selection order.
RelFields == <<"publisher", "publicationType">>
FieldNames == { RelFields[i] : i \in 1..Len(RelFields) }

\* The foreign key the parent row holds for a field (0: null). Every series has
\* a publisher, the same one; the first has no publication type.
ForeignKey(s, f) ==
  IF f = "publisher" THEN 1 ELSE IF s = 1 THEN 0 ELSE 1

\* The schema: publisher: Publisher!  publicationType: SeriesPublicationType
NonNull(f) == f = "publisher"

InternalCode == "INTERNAL_SERVER_ERROR"
GenericMessage == "An internal error occurred."
NullMessage == "Cannot return null for non-nullable field"

NoResponse == [done |-> FALSE, dataNull |-> FALSE,
               items |-> [s \in Siblings |-> [f \in FieldNames \cup {"name"} |-> "unset"]],
               errors |-> {}]

\* ------------------------------------------------------------------ fetch-covers

\* The primary, undeleted issues of the database and the series of each.
CoverIssues == {1, 2, 3}
SeriesOf(i) == IF i = 3 THEN 2 ELSE 1

\* searchNames: the series name and its variants without "The " and without
\* " Comic Book", as many as are different: two for series 1, one for series 2.
SearchNames(s) == IF s = 1 THEN 2 ELSE 1

\* What one request to Comic Vine comes to: res.status, or 0 when fetch rejects.
HttpStatuses == {200, 420, 500, 0}

\* A plausible bug: the retry does not say that it is one.
cvFetchRetryAlways(retried, status) ==
  IF status = 0 THEN "throw"
  ELSE IF status = 420 THEN "retry"
  ELSE IF status # 200 THEN "throw"
  ELSE "return"

\* cvFetch(url, retried) after its request was answered with status: on 420 it
\* throws when this was the retry, and else waits and calls cvFetch(url, true);
\* on any other status that is not ok it throws; else it returns the body.
cvFetch(retried, status) ==
  IF status = 0 THEN "throw"
  ELSE IF status = 420 THEN IF retried THEN "throw" ELSE "retry"
  ELSE IF status # 200 THEN "throw"
  ELSE "return"

\* A call of cvFetch from outside: the statuses its requests were answered
\* with, whether the request out is the retry, and the waits of 65 minutes.
NoCvCall == [statuses |-> << >>, retried |-> FALSE, waits |-> 0, state |-> "none"]
NewCvCall == [statuses |-> << >>, retried |-> FALSE, waits |-> 0, state |-> "open"]

\* The call in progress after its request was answered with status.
CvAnswered(cv, status) ==
  LET what == cvFetch(cv.retried, status)
  IN [statuses |-> Append(cv.statuses, status),
      retried |-> cv.retried \/ what = "retry",
      waits |-> cv.waits + (IF what = "retry" THEN 1 ELSE 0),
      state |-> IF what = "retry" THEN "open"
                ELSE IF what = "throw" THEN "threw" ELSE "returned"]

\* The script is not running; no and failedNow are of the run before.
\* uploadedNow: the issues whose upload succeeded in this run.
RunIdle ==
  [no |-> 0, phase |-> "idle", work |-> {}, total |-> 0, queue |-> << >>,
   series |-> 0, nameIdx |-> 0, matched |-> {}, todo |-> << >>, issue |-> 0,
   uploaded |-> 0, skipped |-> 0, failed |-> 0, processed |-> 0,
   tally |-> [i \in CoverIssues |-> 0], failedBefore |-> {}, failedNow |-> {},
   uploadedNow |-> {}]

CoverIdle ==
  /\ covers = [i \in CoverIssues |-> FALSE]
  /\ run = RunIdle
  /\ cvCall = NoCvCall
  /\ uploadLog = {}

\* A plausible bug: the query without coverImageUrl: null.
WorkQueryAll(c) == CoverIssues

\* prisma.issue.findMany({ where: { deleted: 0, variantOfId: null,
\* coverImageUrl: null } })
WorkQuery(c) == { i \in CoverIssues : ~c[i] }

\* seriesIssues: the issues of the run that belong to series s.
GroupOf(r, s) == { i \in r.work : SeriesOf(i) = s }

\* Each issue of the set gets one more count.
Tallied(t, issues) == [i \in CoverIssues |-> IF i \in issues THEN t[i] + 1 ELSE t[i]]

\* for (const [seriesId, seriesIssues] of bySeries): the next series and the
\* first request of getVolumeIds, or the end of main.
LoopSeries(r) ==
  IF r.queue = << >>
  THEN [r EXCEPT !.phase = "done", !.series = 0, !.issue = 0, !.matched = {}]
  ELSE [r EXCEPT !.phase = "volumes", !.series = Head(r.queue), !.queue = Tail(r.queue),
                 !.nameIdx = 1, !.matched = {}, !.todo = << >>, !.issue = 0]

\* volumeIds.length === 0: the issues of the series are skipped.
SeriesSkipped(r) ==
  LET group == GroupOf(r, r.series)
  IN LoopSeries([r EXCEPT !.skipped = @ + Cardinality(group),
                          !.processed = @ + Cardinality(group),
                          !.tally = Tallied(@, group)])

\* A plausible bug: the catch of the series does not count its issues as failed.
SeriesFailedUncounted(r) ==
  LET group == GroupOf(r, r.series)
  IN LoopSeries([r EXCEPT !.processed = @ + Cardinality(group),
                          !.failedNow = @ \cup group])

\* The catch of the series: its issues are counted as failed and processed.
SeriesFailed(r) ==
  LET group == GroupOf(r, r.series)
  IN LoopSeries([r EXCEPT !.failed = @ + Cardinality(group),
                          !.processed = @ + Cardinality(group),
                          !.tally = Tallied(@, group),
                          !.failedNow = @ \cup group])

\* for (const issue of seriesIssues): processed++, and an issue without
\* candidates is skipped; the loop goes on to the first issue with candidates,
\* whose upload it awaits, or to the next series.
RECURSIVE LoopIssues(_)
LoopIssues(r) ==
  IF r.todo = << >> THEN LoopSeries(r)
  ELSE LET i == Head(r.todo)
           r1 == [r EXCEPT !.processed = @ + 1, !.todo = Tail(@)]
       IN IF i \notin r.matched
          THEN LoopIssues([r1 EXCEPT !.skipped = @ + 1, !.tally = Tallied(@, {i})])
          ELSE [r1 EXCEPT !.phase = "upload", !.issue = i]

\* The catch of the issue: failed++, and the loop goes on.
IssueFailed(r) ==
  LoopIssues([r EXCEPT !.failed = @ + 1, !.tally = Tallied(@, {r.issue}),
                       !.failedNow = @ \cup {r.issue}])

\* The call of cvFetch a run at r awaits: a new one when r is at the first
\* request of a series, else the one before.
CvFor(r, old) == IF r.phase = "volumes" THEN NewCvCall ELSE old

\* main is called: it reads the issues without a cover, groups them by series
\* in the order the database returned them, and enters its loop.
StartRun ==
  /\ run.phase = "idle"
  /\ run.no < MaxRuns
  /\ LET work == WorkQuery(covers)
     IN \E q \in Perms({ SeriesOf(i) : i \in work }) :
          /\ run' = LoopSeries([RunIdle EXCEPT !.no = run.no + 1, !.work = work,
                                  !.total = Cardinality(work), !.queue = q,
                                  !.failedBefore = run.failedNow])
          /\ cvCall' = CvFor(run', NoCvCall)
  /\ UNCHANGED <<covers, uploadLog, loaderVars, resolveVars, listVars, errorVars>>

\* The request of cvFetch is answered with a status that is not 200, or fetch
\* rejects: cvFetch waits and sends the request again, or throws, and what it
\* throws is caught by the catch of the series.
CvNotOk(status) ==
  /\ run.phase \in {"volumes", "issues"}
  /\ cvCall.state = "open"
  /\ Len(cvCall.statuses) < MaxCvRequests
  /\ status # 200
  /\ LET cv == CvAnswered(cvCall, status)
     IN IF cv.state = "open"
        THEN /\ cvCall' = cv
             /\ UNCHANGED run
        ELSE /\ run' = SeriesFailed(run)
             /\ cvCall' = CvFor(run', cv)
  /\ UNCHANGED <<covers, uploadLog, loaderVars, resolveVars, listVars, errorVars>>

\* getVolumeIds: the request for a search name is answered with 200, with a
\* volume of that name or without; without, the next name is asked for, and
\* after the last the series is skipped.
CvVolumes(found) ==
  /\ run.phase = "volumes"
  /\ cvCall.state = "open"
  /\ Len(cvCall.statuses) < MaxCvRequests
  /\ cvFetch(cvCall.retried, 200) = "return"
  /\ IF found
     THEN /\ run' = [run EXCEPT !.phase = "issues"]
          /\ cvCall' = NewCvCall
     ELSE IF run.nameIdx < SearchNames(run.series)
     THEN /\ run' = [run EXCEPT !.nameIdx = @ + 1]
          /\ cvCall' = NewCvCall
     ELSE /\ run' = SeriesSkipped(run)
          /\ cvCall' = CvFor(run', CvAnswered(cvCall, 200))
  /\ UNCHANGED <<covers, uploadLog, loaderVars, resolveVars, listVars, errorVars>>

\* fetchAllVolumeIssues: the request for a page of a volume's issues is
\* answered with 200; the issues of the series in m have a candidate on it.
\* With more pages or volumes to come the next request is sent; else the
\* issues are matched in the order the database returned them.
CvIssues(m, more) ==
  /\ run.phase = "issues"
  /\ cvCall.state = "open"
  /\ Len(cvCall.statuses) < MaxCvRequests
  /\ cvFetch(cvCall.retried, 200) = "return"
  /\ m \subseteq GroupOf(run, run.series)
  /\ IF more
     THEN /\ m \ run.matched # {}
          /\ run' = [run EXCEPT !.matched = @ \cup m]
          /\ cvCall' = NewCvCall
     ELSE \E order \in Perms(GroupOf(run, run.series)) :
            /\ run' = LoopIssues([run EXCEPT !.matched = @ \cup m, !.todo = order])
            /\ cvCall' = CvFor(run', CvAnswered(cvCall, 200))
  /\ UNCHANGED <<covers, uploadLog, loaderVars, resolveVars, listVars, errorVars>>

\* cloudinary.uploader.upload settles: resolved, the update of the issue is
\* awaited; rejected, the issue has failed.
UploadSettles(ok) ==
  /\ run.phase = "upload"
  /\ uploadLog' = uploadLog \cup
       {[issue |-> run.issue, hadCover |-> covers[run.issue], ok |-> ok]}
  /\ run' = IF ok THEN [run EXCEPT !.phase = "update", !.uploadedNow = @ \cup {run.issue}]
             ELSE IssueFailed(run)
  /\ cvCall' = CvFor(run', cvCall)
  /\ UNCHANGED <<covers, loaderVars, resolveVars, listVars, errorVars>>

\* prisma.issue.update settles: resolved, the issue has its cover and is
\* counted as uploaded; rejected, the issue has failed.
UpdateSettles(ok) ==
  /\ run.phase = "update"
  /\ IF ok
     THEN /\ covers' = [covers EXCEPT ![run.issue] = TRUE]
          /\ run' = LoopIssues([run EXCEPT !.uploaded = @ + 1,
                                           !.tally = Tallied(@, {run.issue})])
     ELSE /\ run' = IssueFailed(run)
          /\ UNCHANGED covers
  /\ cvCall' = CvFor(run', cvCall)
  /\ UNCHANGED <<uploadLog, loaderVars, resolveVars, listVars, errorVars>>

\* The process ends: main has finished, or the script was interrupted.
Exit ==
  /\ run.phase # "idle"
  /\ run' = [RunIdle EXCEPT !.no = run.no, !.failedNow = run.failedNow]
  /\ cvCall' = NoCvCall
  /\ UNCHANGED <<covers, uploadLog, loaderVars, resolveVars, listVars, errorVars>>

NextCovers ==
  \/ StartRun
  \/ \E status \in HttpStatuses : CvNotOk(status)
  \/ \E found \in BOOLEAN : CvVolumes(found)
  \/ \E m \in SUBSET CoverIssues, more \in BOOLEAN : CvIssues(m, more)
  \/ \E ok \in BOOLEAN : UploadSettles(ok)
  \/ \E ok \in BOOLEAN : UpdateSettles(ok)
  \/ Exit

\* ------------------------------------------------------------------ error boundary

\* The relationship resolvers that return one record.
RelResolvers ==
  {"Publisher.country", "Series.publisher", "Issue.series", "Story.issue",
   "Series.publicationType", "Issue.variantOf", "Creator.birthCountry",
   "Creator.deathCountry"}

\* The schema: country: Country!  publisher: Publisher!  series: Series!
\* issue: Issue!  against  publicationType: SeriesPublicationType
\* variantOf: Issue  birthCountry: Country  deathCountry: Country
Required(r) ==
  r \in {"Publisher.country", "Series.publisher", "Issue.series", "Story.issue"}

\* The foreign keys a parent row can hold (0: null): the column of a required
\* relationship is never null.
ForeignKeys(r) == IF Required(r) THEN {1} ELSE {0, 1}

\* What the storage call of a resolver can come to: the record, no record, or
\* a rejection carrying the storage's own message.
RawErrors ==
  {"Can't reach database server at db:5432", "Timed out fetching a new connection"}
StorageOutcomes ==
  {[kind |-> "found", detail |-> ""], [kind |-> "absent", detail |-> ""]}
  \cup { [kind |-> "rejected", detail |-> d] : d \in RawErrors }

NotFoundCode == "NOT_FOUND"
BadUserInputCode == "BAD_USER_INPUT"
UserFacingCodes == {BadUserInputCode, NotFoundCode}
CountryNotFound == "Country not found for publisher 1"

\* What a call comes to: a returned value ("record", "null") or a thrown error.
NoError == [graphql |-> FALSE, code |-> "", message |-> ""]
Return(v) == [threw |-> FALSE, value |-> v, error |-> NoError]
Throw(e) == [threw |-> TRUE, value |-> "null", error |-> e]
GraphQLError(message, code) == [graphql |-> TRUE, code |-> code, message |-> message]
RawError(detail) == [graphql |-> FALSE, code |-> "", message |-> detail]

\* The function a relationship resolver wraps, called for a parent holding the
\* foreign key fk, with st what its storage call comes to:
\*   optional:          if (!parent.xId) return null; return findUnique(...)
\*   Publisher.country: if (!result?.country) throw GraphQLError(NOT_FOUND)
\*   any other:         return findUnique(...)
ResolverFn(r, fk, st) ==
  IF ~Required(r) /\ fk = 0 THEN Return("null")
  ELSE IF st.kind = "rejected" THEN Throw(RawError(st.detail))
  ELSE IF r = "Publisher.country"
       THEN IF st.kind = "absent"
            THEN Throw(GraphQLError(CountryNotFound, NotFoundCode))
            ELSE Return("record")
  ELSE Return(IF st.kind = "found" THEN "record" ELSE "null")

\* A plausible bug: the wrapper throws on whatever it caught.
withErrorHandlingRethrow(out) ==
  [out |-> out, console |-> 0]

\* withErrorHandling: a GraphQLError is thrown on as it is; any other error is
\* written to the console and a GraphQLError with the generic message and the
\* code INTERNAL_SERVER_ERROR is thrown in its place.
withErrorHandling(out) ==
  IF ~out.threw \/ out.error.graphql
  THEN [out |-> out, console |-> 0]
  ELSE [out |-> Throw(GraphQLError(GenericMessage, InternalCode)), console |-> 1]

\* No error in the response.
NoOutward == [message |-> "", code |-> "", stacktrace |-> FALSE]

\* The execution completes the field: a null returned for a field the schema
\* declares non-null is a field error without a code.
CompleteValue(r, out) ==
  IF ~out.threw /\ out.value = "null" /\ Required(r)
  THEN Throw(RawError(NullMessage))
  ELSE out

\* The server formats a field error before formatError sees it: the message,
\* the error's code or INTERNAL_SERVER_ERROR when it has none, and the stack
\* trace outside production.
Formatted(prod, e) ==
  [message |-> e.message,
   code |-> IF e.code = "" THEN InternalCode ELSE e.code,
   stacktrace |-> ~prod]

\* formatError: an INTERNAL_SERVER_ERROR is logged, and in production replaced
\* by the generic message and the code alone; any other error is returned as
\* formatted.
formatError(prod, formattedError) ==
  [error |-> IF formattedError.code = InternalCode /\ prod
             THEN [message |-> GenericMessage, code |-> InternalCode, stacktrace |-> FALSE]
             ELSE formattedError,
   logger |-> IF formattedError.code = InternalCode THEN 1 ELSE 0]

\* A plausible bug: the server as it was before error handling was added,
\* resolvers unwrapped and no formatError hook.
ExecuteBare(prod, r, fnOut) ==
  LET done == CompleteValue(r, fnOut)
  IN [value |-> done.value,
      error |-> IF done.threw THEN Formatted(prod, done.error) ELSE NoOutward,
      console |-> 0,
      logger |-> 0]

\* One relationship field from what the wrapped function came to until the
\* response: the wrapper, the completion of the value, the formatting of the
\* error and the formatError hook.
Execute(prod, r, fnOut) ==
  LET wrapped == withErrorHandling(fnOut)
      done == CompleteValue(r, wrapped.out)
      hook == formatError(prod, Formatted(prod, done.error))
  IN [value |-> done.value,
      error |-> IF done.threw THEN hook.error ELSE NoOutward,
      console |-> wrapped.console,
      logger |-> IF done.threw THEN hook.logger ELSE 0]

NoRelCall == [resolver |-> "", fk |-> 0]

\* No relationship field is being resolved and none was.
ErrorIdle ==
  /\ relCall = NoRelCall
  /\ answered = {}

\* What is recorded of a resolved field.
Answer(r, fk, st) ==
  LET fnOut == ResolverFn(r, fk, st)
      res == Execute(production, r, fnOut)
  IN [resolver |-> r, fk |-> fk, storage |-> st, thrown |-> fnOut,
      value |-> res.value, error |-> res.error,
      console |-> res.console, logger |-> res.logger]

NotCalled == [kind |-> "none", detail |-> ""]

\* An operation selects the relationship field r of a parent holding the
\* foreign key fk: the resolver returns null at once for an optional
\* relationship without a key, and calls the storage otherwise.
CallResolver(r, fk) ==
  /\ relCall = NoRelCall
  /\ Cardinality(answered) < MaxRequests
  /\ IF ~Required(r) /\ fk = 0
     THEN /\ answered' = answered \cup {Answer(r, fk, NotCalled)}
          /\ UNCHANGED relCall
     ELSE /\ relCall' = [resolver |-> r, fk |-> fk]
          /\ UNCHANGED answered
  /\ UNCHANGED <<loaderVars, resolveVars, listVars, coverVars>>

\* The storage call of the resolver in progress settles as st, and the field
\* goes into the response.
StorageSettles(st) ==
  /\ relCall # NoRelCall
  /\ answered' = answered \cup {Answer(relCall.resolver, relCall.fk, st)}
  /\ relCall' = NoRelCall
  /\ UNCHANGED <<loaderVars, resolveVars, listVars, coverVars>>

NextErrors ==
  \/ \E r \in RelResolvers : \E fk \in ForeignKeys(r) : CallResolver(r, fk)
  \/ \E st \in StorageOutcomes : StorageSettles(st)

\* ------------------------------------------------------------------ field resolution, continued

ResolveStart ==
  /\ production \in BOOLEAN
  /\ fieldState = [s \in Siblings |-> [f \in FieldNames |-> "idle"]]
  /\ prismaCalls = [f \in FieldNames |-> 0]
  /\ consoleErrors = 0
  /\ loggerErrors = 0
  /\ response = NoResponse

\* The state in which no operation is being resolved field by field.
ResolveIdle ==
  /\ production = TRUE
  /\ fieldState = [s \in Siblings |-> [f \in FieldNames |-> "idle"]]
  /\ prismaCalls = [f \in FieldNames |-> 0]
  /\ consoleErrors = 0
  /\ loggerErrors = 0
  /\ response = NoResponse

Init == InitLoaders /\ ResolveIdle /\ ListIdle /\ ErrorIdle /\ CoverIdle

\* The execution order of the field resolvers: item by item, and for each item
\* field by field in selection order.
Rank(s, i) == (s - 1) * Len(RelFields) + i
Started(s, i) == fieldState[s][RelFields[i]] # "idle"
AllStarted == \A s \in Siblings, i \in 1..Len(RelFields) : Started(s, i)

\* The resolver of field RelFields[i] is called for item s:
\*   Series.publisher:       return prisma.publisher.findUnique(...)
\*   Series.publicationType: if (!parent.publicationTypeId) return null;
\*                           return prisma.seriesPublicationType.findUnique(...)
\* The resolver takes (parent, args) only: it calls prisma itself and has no
\* loader registry at hand.
Resolve(s, i) ==
  LET f == RelFields[i]
  IN /\ ~response.done
     /\ fieldState[s][f] = "idle"
     /\ \A s2 \in Siblings, i2 \in 1..Len(RelFields) :
          Rank(s2, i2) < Rank(s, i) => Started(s2, i2)
     /\ IF ~NonNull(f) /\ ForeignKey(s, f) = 0
        THEN /\ fieldState' = [fieldState EXCEPT ![s][f] = "null"]
             /\ UNCHANGED prismaCalls
        ELSE /\ fieldState' = [fieldState EXCEPT ![s][f] = "waiting"]
             /\ prismaCalls' = [prismaCalls EXCEPT ![f] = @ + 1]
     /\ UNCHANGED <<production, consoleErrors, loggerErrors, response, loaderVars,
                   listVars, errorVars, coverVars>>

\* findUnique resolved, with the record or with null: the resolver returns it.
PrismaOk(s, f, found) ==
  /\ AllStarted
  /\ fieldState[s][f] = "waiting"
  /\ fieldState' = [fieldState EXCEPT ![s][f] = IF found THEN "value" ELSE "null"]
  /\ UNCHANGED <<production, prismaCalls, consoleErrors, loggerErrors, response, loaderVars,
                listVars, errorVars, coverVars>>

\* findUnique rejected with a storage error. withErrorHandling catches it: it is
\* no GraphQLError, so it is written to the console and a GraphQLError with the
\* generic message and the code INTERNAL_SERVER_ERROR is thrown for the field.
PrismaFail(s, f) ==
  /\ AllStarted
  /\ fieldState[s][f] = "waiting"
  /\ consoleErrors' = consoleErrors + 1
  /\ fieldState' = [fieldState EXCEPT ![s][f] = "error"]
  /\ UNCHANGED <<production, prismaCalls, loggerErrors, response, loaderVars,
                listVars, errorVars, coverVars>>

\* The field errors of the execution: a resolver that threw, and a null
\* returned for a field the schema declares non-null.
FieldErrors ==
  { [item |-> s, field |-> f, code |-> InternalCode, message |-> GenericMessage] :
      <<s, f>> \in { x \in Siblings \X FieldNames : fieldState[x[1]][x[2]] = "error" } }
  \cup
  { [item |-> s, field |-> f, code |-> InternalCode, message |-> NullMessage] :
      <<s, f>> \in { x \in Siblings \X FieldNames :
                       fieldState[x[1]][x[2]] = "null" /\ NonNull(x[2]) } }

\* formatError: an INTERNAL_SERVER_ERROR is logged, and in production replaced
\* by the generic message and the code alone; any other error is returned as is.
FormatError(e) ==
  IF e.code = InternalCode /\ production
  THEN [e EXCEPT !.message = GenericMessage]
  ELSE e

\* A field error nulls its field; when the field is non-null the null moves up
\* to the nearest nullable ancestor. Series.publisher is non-null, and so are
\* the item (Series!), the list ([Series!]!) and allSeries (SeriesConnection!):
\* such a null reaches the root and the whole data is null.
DataNull == \E e \in FieldErrors : NonNull(e.field)

\* Every resolver has settled: the response is assembled and its errors pass
\* through formatError.
Complete ==
  /\ ~response.done
  /\ \A s \in Siblings, f \in FieldNames : fieldState[s][f] \in {"value", "null", "error"}
  /\ response' =
       [done |-> TRUE,
        dataNull |-> DataNull,
        items |-> [s \in Siblings |-> [f \in FieldNames \cup {"name"} |->
           IF DataNull THEN "dropped"
           ELSE IF f = "name" THEN "value"
           ELSE IF fieldState[s][f] = "value" THEN "value" ELSE "null"]],
        errors |-> { FormatError(e) : e \in FieldErrors }]
  /\ loggerErrors' = loggerErrors + Cardinality({ e \in FieldErrors : e.code = InternalCode })
  /\ UNCHANGED <<production, fieldState, prismaCalls, consoleErrors, loaderVars,
                listVars, errorVars, coverVars>>

NextResolve ==
  \/ \E s \in Siblings, i \in 1..Len(RelFields) : Resolve(s, i)
  \/ \E s \in Siblings, f \in FieldNames, found \in BOOLEAN : PrismaOk(s, f, found)
  \/ \E s \in Siblings, f \in FieldNames : PrismaFail(s, f)
  \/ Complete

InitResolve == InitLoaders /\ ResolveStart /\ ListIdle /\ ErrorIdle /\ CoverIdle

SpecResolve == InitResolve /\ [][NextResolve]_vars

\* What the event loop and the storage do for the operations O in progress.
Scheduling(O, n) ==
  \/ \E o \in O : BeginTurn(o, n)
  \/ EndTurn
  \/ \E g \in O, l \in Loaders : Dispatch(g, l)
  \/ \E f \in 1..Len(fetches) : FetchOk(f)
  \/ \E f \in 1..Len(fetches) : FetchFail(f)

\* Two operations in progress whose fields load countries by ID, beside a writer.
NextLoaders ==
  \/ Scheduling(Ops, MaxCalls)
  \/ \E o \in Ops, k \in Keys : Load(o, "country", k)
  \/ \E k \in Keys : Write("country", k)

Spec == Init /\ [][NextLoaders]_vars

\* One operation whose fields load single records through two loaders of its
\* registry.
NextRegistry ==
  \/ Scheduling({"opA"}, MaxCalls)
  \/ \E l \in ByIdLoaders, k \in Keys : Load("opA", l, k)

SpecRegistry == Init /\ [][NextRegistry]_vars

\* One operation whose fields load the children of a parent.
NextParentLoaders ==
  \/ Scheduling({"opA"}, MaxParentCalls)
  \/ \E l \in ParentLoaders, k \in Keys : Load("opA", l, k)

SpecParent == Init /\ [][NextParentLoaders]_vars

InitList == InitLoaders /\ ResolveIdle /\ ListStart /\ ErrorIdle /\ CoverIdle

InitErrors == InitLoaders /\ ResolveStart /\ ListIdle /\ ErrorIdle /\ CoverIdle

SpecErrors == InitErrors /\ [][NextErrors]_vars

\* The fetch-covers script, run and run again.
SpecCovers == Init /\ [][NextCovers]_vars

SpecList == InitList /\ [][NextList]_vars

SpecIssues == InitList /\ [][NextIssues]_vars

SpecListWrites == InitList /\ [][NextListWrites]_vars

\* The functions of validation.test.ts, called with the inputs above.
SpecValidate == Init /\ [][NextValidate]_vars


\* ------------------------------------------------------------------ loader claims

CallsOf(o, l) == { i \in 1..Len(calls) : calls[i].op = o /\ calls[i].loader = l }
FetchesOf(g, l) == { f \in 1..Len(fetches) : fetches[f].reg = g /\ fetches[f].loader = l }
NoDuplicates(s) == \A i, j \in 1..Len(s) : s[i] = s[j] => i = j

\* The turn numbered t is over and the batch it scheduled has been dispatched.
TurnDispatched(o, l, t) ==
  /\ t < turnNo \/ running = NoOp
  /\ ~(batch[o][l].open /\ batch[o][l].turn = t)

\* C1: the load calls that one operation issues on one by-ID loader within one
\* synchronous turn, for keys not loaded before on that loader, cause exactly
\* one fetch call, and it receives exactly the distinct keys, each once.
C1_OneFetchPerTurn ==
  \A o \in Ops, l \in ByIdLoaders, t \in 1..turnNo :
    LET cs == { i \in CallsOf(o, l) : calls[i].turn = t }
        K == { calls[i].key : i \in cs }
        fresh == \A j \in CallsOf(o, l) : calls[j].turn < t => calls[j].key \notin K
        fs == { f \in FetchesOf(o, l) : fetches[f].turn = t }
    IN (cs # {} /\ fresh /\ TurnDispatched(o, l, t)) =>
         /\ Cardinality(fs) = 1
         /\ \A f \in fs : /\ NoDuplicates(fetches[f].keys)
                          /\ SeqToSet(fetches[f].keys) = K
                          /\ Len(fetches[f].keys) = Cardinality(K)

\* Three loads with two distinct keys were issued in one turn and fetched.
C1_Witness ==
  \E o \in Ops, t \in 1..turnNo :
    LET cs == { i \in CallsOf(o, "country") : calls[i].turn = t }
    IN /\ Cardinality(cs) = 3
       /\ Cardinality({ calls[i].key : i \in cs }) = 2
       /\ \E f \in FetchesOf(o, "country") : fetches[f].turn = t /\ Len(fetches[f].keys) = 2

\* C3: a load is answered from the registry of the operation that made it: the
\* promise it gets was created in that registry, and is settled by a fetch that
\* this registry issued for its key, never by another operation's.
C3_RegistryPerOperation ==
  \A i \in 1..Len(calls) :
    LET p == promises[calls[i].pid]
    IN /\ p.reg = calls[i].op
       /\ p.key = calls[i].key
       /\ p.fetch # 0 => /\ fetches[p.fetch].reg = calls[i].op
                         /\ calls[i].key \in SeqToSet(fetches[p.fetch].keys)

\* Both operations loaded the same key, the second after the first one's fetch
\* had settled with a value, and each has a fetch of its own for it.
C3_Witness ==
  \E k \in Keys :
    \E f1 \in FetchesOf("opA", "country"), f2 \in FetchesOf("opB", "country") :
      /\ k \in SeqToSet(fetches[f1].keys) /\ k \in SeqToSet(fetches[f2].keys)
      /\ fetches[f1].status = "ok"
      /\ fetches[f1].settled < fetches[f2].turn

\* C4: within one registry, the load calls of one key that were answered with a
\* value were all answered with the same value, and as long as no fetch of that
\* key failed the key went to storage in at most one fetch call.
C4_SameValueOneFetch ==
  \A o \in Ops, l \in ByIdLoaders, k \in Keys :
    LET cs == { i \in CallsOf(o, l) : calls[i].key = k }
        fs == { f \in FetchesOf(o, l) : k \in SeqToSet(fetches[f].keys) }
    IN /\ \A i, j \in cs :
            (promises[calls[i].pid].state = "value" /\ promises[calls[j].pid].state = "value")
              => promises[calls[i].pid].value = promises[calls[j].pid].value
       /\ (\A f \in fs : fetches[f].status # "failed") => Cardinality(fs) <= 1

\* A key was loaded again after its batch had settled with a value and after the
\* record had changed in the database: the second load got the cached value.
C4_Witness ==
  \E o \in Ops, k \in Keys :
    \E i, j \in CallsOf(o, "country") :
      LET p == promises[calls[i].pid]
      IN /\ i < j /\ calls[i].key = k /\ calls[j].key = k
         /\ p.state = "value"
         /\ p.fetch # 0 /\ fetches[p.fetch].settled < calls[j].turn
         /\ promises[calls[j].pid].state = "value"
         /\ \E r \in db["country"] : r.id = k /\ p.value # RowValue(r)

C6_ValueByKey ==
  \A p \in 1..Len(promises) :
    (promises[p].loader \in ByIdLoaders /\ promises[p].state = "value") =>
      LET rows == fetches[promises[p].fetch].rows
          match == { r \in SeqToSet(rows) : r.id = promises[p].key }
      IN IF match = {} THEN promises[p].value = Null
         ELSE /\ promises[p].value.kind = "row"
              /\ promises[p].value.rows[1] \in match

\* A fetch returned its two records in the opposite order of its keys, and a
\* load of a key without a record resolved to null.
C6_Witness ==
  /\ \E f \in 1..Len(fetches) :
       /\ fetches[f].status = "ok" /\ Len(fetches[f].keys) = 2 /\ Len(fetches[f].rows) = 2
       /\ fetches[f].rows[1].id = fetches[f].keys[2]
  /\ \E p \in 1..Len(promises) : promises[p].state = "value" /\ promises[p].value = Null

\* The live children of parent k in the table that loader l reads.
LiveChildren(l, k) == { r \in db[TableOf(l)] : r.parent = k /\ r.deleted = 0 }

\* C7: a parent-keyed load that resolved has a sequence, never null, and the
\* empty sequence when the parent has no live child.
C7_EmptyForChildless ==
  \A p \in 1..Len(promises) :
    (promises[p].loader \in ParentLoaders /\ promises[p].state = "value") =>
      /\ promises[p].value.kind = "list"
      /\ LiveChildren(promises[p].loader, promises[p].key) = {}
           => promises[p].value = ListValue(<< >>)

\* One batch held a parent without live children, resolved to the empty
\* sequence, beside a parent resolved to its children.
C7_Witness ==
  \E f \in 1..Len(fetches) :
    /\ fetches[f].status = "ok" /\ Len(fetches[f].keys) = 2
    /\ fetches[f].loader \in ParentLoaders
    /\ \E i, j \in 1..2 :
         /\ LiveChildren(fetches[f].loader, fetches[f].keys[i]) = {}
         /\ promises[fetches[f].pids[i]].value = ListValue(<< >>)
         /\ Len(promises[fetches[f].pids[j]].value.rows) = 2

C9_FailureStaysInBatch ==
  /\ \A f \in 1..Len(fetches) :
       /\ fetches[f].status = "failed" =>
            \A i \in 1..Len(fetches[f].pids) : promises[fetches[f].pids[i]].state = "error"
       /\ fetches[f].status = "ok" =>
            \A i \in 1..Len(fetches[f].pids) : promises[fetches[f].pids[i]].state = "value"
  /\ \A p \in 1..Len(promises) :
       promises[p].state = "error" =>
         promises[p].fetch # 0 /\ fetches[promises[p].fetch].status = "failed"

\* After a fetch of one loader failed, a fetch of another loader of the registry
\* and a later batch of the same loader both resolved.
C9_Witness ==
  \E f, f2, f3 \in 1..Len(fetches) :
    /\ fetches[f].status = "failed"
    /\ fetches[f2].status = "ok" /\ fetches[f2].loader # fetches[f].loader
    /\ fetches[f2].settled >= fetches[f].settled /\ f2 > f
    /\ fetches[f3].status = "ok" /\ fetches[f3].loader = fetches[f].loader /\ f3 > f
    /\ fetches[f3].turn > fetches[f].settled

\* C2: once the relationship field publisher has been resolved for each of the
\* 3 sibling series, exactly one storage fetch has been issued for that
\* relationship, by the publisher loader of the registry, and the resolvers
\* have made no storage call of their own.
C2_OneBatchedFetch ==
  AllStarted =>
    /\ prismaCalls["publisher"] = 0
    /\ Cardinality({ f \in 1..Len(fetches) : fetches[f].loader = "publisher" }) = 1

\* The fields of the operation other than field f of item s.
OtherFields(s, f) == { x \in Siblings \X FieldNames : x # <<s, f>> }

\* C10: when the storage call of exactly one relationship field failed and
\* every other one returned its record, the response is partial: the data is
\* there, every other field carries its value, the failed field is null, and
\* the errors are one entry, for the failed field, coded INTERNAL_SERVER_ERROR.
C10_PartialResponse ==
  \A s \in Siblings, f \in FieldNames :
    ( /\ response.done
      /\ fieldState[s][f] = "error"
      /\ \A x \in OtherFields(s, f) :
           fieldState[x[1]][x[2]] = "value" \/ ForeignKey(x[1], x[2]) = 0 ) =>
      /\ ~response.dataNull
      /\ \A s2 \in Siblings : response.items[s2]["name"] = "value"
      /\ \A x \in OtherFields(s, f) :
           fieldState[x[1]][x[2]] = "value" => response.items[x[1]][x[2]] = "value"
      /\ response.items[s][f] = "null"
      /\ Cardinality(response.errors) = 1
      /\ \A e \in response.errors : e.item = s /\ e.field = f /\ e.code = InternalCode

\* C17: validatePagination throws BAD_USER_INPUT for every given limit below 1
\* or above 100 and for every given negative offset, and returns for every
\* other input: limit absent or in 1..100, offset absent or at least 0.
C17_PaginationValidated ==
  call.fn = "validatePagination" =>
    LET limit == call.args[1]
        offset == call.args[2]
        badLimit == limit.given /\ (limit.val < 1 \/ limit.val > 100)
        badOffset == offset.given /\ offset.val < 0
    IN IF badLimit \/ badOffset
       THEN call.result.code = "BAD_USER_INPUT"
       ELSE call.result = Returned

\* validatePagination was called with the limit 101 and a valid offset, and threw.
C17_Witness ==
  /\ call.fn = "validatePagination"
  /\ call.args[1] = Given(101) /\ call.args[2] = Given(0)
  /\ call.result.code = "BAD_USER_INPUT"

\* C18: clampLimit answers 20 for an absent limit, 0 and every limit below 1,
\* and min(limit, 100) otherwise; clampOffset answers the offset when it is
\* positive and 0 otherwise (absent, zero, negative).
C18_PageWindow ==
  /\ call.fn = "clampLimit" =>
       LET limit == call.args[1]
       IN call.result = IF ~limit.given \/ limit.val < 1 THEN 20
                        ELSE IF limit.val < 100 THEN limit.val ELSE 100
  /\ call.fn = "clampOffset" =>
       LET offset == call.args[1]
       IN call.result = IF offset.given /\ offset.val > 0 THEN offset.val ELSE 0

\* clampLimit was called with a limit over 100 and answered 100.
C18_Witness ==
  /\ call.fn = "clampLimit"
  /\ call.args[1].given /\ call.args[1].val > 100
  /\ call.result = 100

\* The string is 4 digits, '-', 2 digits, '-', 2 digits.
IsoDateForm(s) ==
  /\ Len(s) = 10
  /\ \A i \in 1..10 : IF i \in {5, 8} THEN s[i] = "-" ELSE s[i] \in Digits

\* C19: validateDate returns for an absent value and for every string of the
\* form 4 digits, '-', 2 digits, '-', 2 digits, and throws BAD_USER_INPUT for
\* every other given string.
C19_DateValidated ==
  call.fn = "validateDate" =>
    LET value == call.args[1]
    IN IF ~value.given \/ IsoDateForm(value.val)
       THEN call.result = Returned
       ELSE call.result.code = "BAD_USER_INPUT"

\* C20: validateSearch returns for an absent search and for every text of at
\* most 200 characters, and throws BAD_USER_INPUT for every longer text.
C20_SearchValidated ==
  call.fn = "validateSearch" =>
    LET search == call.args[1]
    IN IF ~search.given \/ Len(search.val) <= 200
       THEN call.result = Returned
       ELSE call.result.code = "BAD_USER_INPUT"

\* validateSearch was called with a text of 201 characters, and threw.
C20_Witness ==
  /\ call.fn = "validateSearch"
  /\ call.args[1].given /\ Len(call.args[1].val) = 201
  /\ call.result.code = "BAD_USER_INPUT"

\* The two last list queries were answered, for the same list.
TwoAnswers ==
  IF prev = NoResult \/ last = NoResult THEN FALSE
  ELSE prev.q = last.q /\ SameFilter(prev.args, last.args)

C12_PageWithinLimit ==
  last # NoResult =>
    /\ last.args.limit.given => Len(last.items) <= last.args.limit.val
    /\ (last.args.offset.given /\ last.args.offset.val >= last.totalCount) =>
         last.items = << >>

\* C13: the items are a slice of the rows the totalCount counted: each item is
\* one of them, and the items are as many as the window takes from that many
\* rows.
C13_OneSnapshot ==
  last # NoResult =>
    LET skip == clampOffset(last.args.offset)
        take == clampLimit(last.args.limit)
        rest == IF last.totalCount > skip THEN last.totalCount - skip ELSE 0
    IN /\ SeqToSet(last.items) \subseteq last.counted
       /\ Len(last.items) = Min(take, rest)

\* C14: the same list query asked twice over unchanged data is answered with
\* the same items in the same order and the same totalCount.
C14_Idempotent ==
  (TwoAnswers /\ prev.args = last.args) =>
    prev.items = last.items /\ prev.totalCount = last.totalCount

\* The sequence is in ascending order of the sort attribute, rows equal in it
\* in ascending order of id.
SortedBySortThenId(s) ==
  \A i \in 1..Len(s) : \A j \in (i + 1)..Len(s) :
    s[i].sort < s[j].sort \/ (s[i].sort = s[j].sort /\ s[i].id < s[j].id)

\* C15: the items are ordered by the sort attribute and then by id, and two
\* pages at consecutive offsets over unchanged data share no row and leave
\* none out between them.
C15_StablePages ==
  /\ last # NoResult => SortedBySortThenId(last.items)
  /\ ( /\ TwoAnswers
       /\ clampLimit(prev.args.limit) = clampLimit(last.args.limit)
       /\ clampOffset(last.args.offset) =
            clampOffset(prev.args.offset) + clampLimit(prev.args.limit) ) =>
       /\ SeqToSet(prev.items) \cap SeqToSet(last.items) = {}
       /\ Len(prev.items) + Len(last.items) =
            Cardinality(SeqToSet(prev.items) \cup SeqToSet(last.items))
       /\ \A r \in last.counted :
            (\E x \in SeqToSet(last.items) :
               r.sort < x.sort \/ (r.sort = x.sort /\ r.id < x.id)) =>
            (r \in SeqToSet(prev.items) \cup SeqToSet(last.items)
             \/ \A y \in SeqToSet(prev.items) :
                  r.sort < y.sort \/ (r.sort = y.sort /\ r.id < y.id))

\* The input of a list query is invalid: a search text over 200 characters, a
\* date not of the form dddd-dd-dd, a given limit outside 1..100 or a given
\* negative offset.
InvalidInput(args) ==
  \/ args.search.given /\ Len(args.search.val) > 200
  \/ args.keyDate.given /\ ~IsoDateForm(args.keyDate.val)
  \/ args.onSaleDate.given /\ ~IsoDateForm(args.onSaleDate.val)
  \/ args.limit.given /\ (args.limit.val < 1 \/ args.limit.val > 100)
  \/ args.offset.given /\ args.offset.val < 0

\* C16: a list query with an invalid input fails with BAD_USER_INPUT and runs
\* no statement against storage.
C16_ValidatedBeforeStorage ==
  /\ txn.phase = "count" => ~InvalidInput(txn.args)
  /\ (IF last = NoResult THEN FALSE ELSE InvalidInput(last.args)) =>
       last.status = "BAD_USER_INPUT" /\ last.statements = 0

\* C29: for every limit and offset that validatePagination accepts, clampLimit
\* answers the given limit (20 when absent) and clampOffset the given offset
\* (0 when absent).
C29_ClampKeepsValidated ==
  (call.fn = "validateThenClamp" /\ call.result.validation = Returned) =>
    LET limit == call.args[1]
        offset == call.args[2]
    IN /\ call.result.take = IF limit.given THEN limit.val ELSE 20
       /\ call.result.skip = IF offset.given THEN offset.val ELSE 0

\* The limit 100 and a positive offset were accepted and left as they are.
C29_Witness ==
  /\ call.fn = "validateThenClamp"
  /\ call.args[1] = Given(100) /\ call.args[2].given /\ call.args[2].val > 0
  /\ call.result.validation = Returned
  /\ call.result.take = 100 /\ call.result.skip = call.args[2].val

\* The turn in which the promise numbered p was created: that of the first load
\* call that returned it.
TurnOfPromise(p) ==
  calls[CHOOSE i \in 1..Len(calls) :
          calls[i].pid = p /\ \A j \in 1..(i - 1) : calls[j].pid # p].turn

\* C28: the keys a loader was asked for in one turn are fetched by one fetch
\* call, that of the turn: a promise is fetched by the batch of the turn that
\* created it, so a key first asked for after a dispatch goes into a new batch;
\* and a load for a key whose promise is pending or resolved returns that
\* promise, so no key is in two fetches unless the earlier one failed.
C28_BatchWindow ==
  /\ \A p \in 1..Len(promises) :
       promises[p].fetch # 0 => fetches[promises[p].fetch].turn = TurnOfPromise(p)
  /\ \A i, j \in 1..Len(calls) :
       ( /\ i < j /\ calls[i].op = calls[j].op /\ calls[i].loader = calls[j].loader
         /\ calls[i].key = calls[j].key /\ calls[i].turn = calls[j].turn ) =>
         calls[i].pid = calls[j].pid
  /\ \A i, j \in 1..Len(calls) :
       ( /\ i < j /\ calls[i].op = calls[j].op /\ calls[i].loader = calls[j].loader
         /\ calls[i].key = calls[j].key /\ calls[i].pid # calls[j].pid ) =>
         promises[calls[i].pid].state = "error"
  /\ \A f1, f2 \in 1..Len(fetches) :
       ( /\ f1 < f2 /\ fetches[f1].reg = fetches[f2].reg
         /\ fetches[f1].loader = fetches[f2].loader
         /\ SeqToSet(fetches[f1].keys) \cap SeqToSet(fetches[f2].keys) # {} ) =>
         fetches[f1].status = "failed"

\* A first turn's batch is in flight with key 1; in a later turn the same
\* loader was asked for key 1 again and for key 2: the first call got the
\* pending promise, the second went into a new batch, dispatched by itself.
C28_Witness ==
  \E i, j, n \in 1..Len(calls) :
    /\ calls[i].loader = calls[j].loader /\ calls[j].loader = calls[n].loader
    /\ calls[i].turn < calls[j].turn /\ calls[j].turn = calls[n].turn
    /\ calls[i].key = calls[j].key /\ calls[n].key # calls[i].key
    /\ calls[i].pid = calls[j].pid
    /\ promises[calls[i].pid].fetch # 0
    /\ fetches[promises[calls[i].pid].fetch].status = "inflight"
    /\ promises[calls[n].pid].fetch # 0
    /\ promises[calls[n].pid].fetch # promises[calls[i].pid].fetch
    /\ fetches[promises[calls[n].pid].fetch].keys = <<calls[n].key>>

\* ------------------------------------------------------------------ error claims

\* C21: an error thrown inside a resolver that carries a user-facing code
\* (BAD_USER_INPUT, NOT_FOUND) is in the response with its own message and
\* code; any other error thrown inside a resolver is in the response as the
\* generic message with the code INTERNAL_SERVER_ERROR.
C21_ErrorClassified ==
  \A a \in answered :
    a.thrown.threw =>
      IF a.thrown.error.graphql /\ a.thrown.error.code \in UserFacingCodes
      THEN /\ a.error.message = a.thrown.error.message
           /\ a.error.code = a.thrown.error.code
      ELSE /\ a.error.message = GenericMessage
           /\ a.error.code = InternalCode

\* Outside production, one resolver threw NOT_FOUND and another's storage call
\* was rejected: the first error is in the response as thrown, the second as
\* the generic one.
C21_Witness ==
  /\ ~production
  /\ \E a, b \in answered :
       /\ a.thrown.threw /\ a.thrown.error.code = NotFoundCode
       /\ a.error.message = CountryNotFound /\ a.error.code = NotFoundCode
       /\ b.storage.kind = "rejected" /\ b.thrown.error.message \in RawErrors
       /\ b.error.message = GenericMessage /\ b.error.code = InternalCode

\* C22: an unexpected error is logged exactly once: a field whose storage call
\* was rejected leaves one log entry on the server, the console's and the
\* logger's taken together.
C22_LoggedOnce ==
  \A a \in answered :
    a.storage.kind = "rejected" => a.console + a.logger = 1

\* C23: in production the error in the response does not depend on internal
\* detail: two fields of the same resolver whose storage calls were rejected
\* with different messages carry the same message and code.
C23_NoDetailInProduction ==
  production =>
    \A a, b \in answered :
      ( /\ a.resolver = b.resolver /\ a.fk = b.fk
        /\ a.storage.kind = "rejected" /\ b.storage.kind = "rejected" ) =>
        /\ a.error.message = b.error.message
        /\ a.error.code = b.error.code
        /\ a.error.stacktrace = b.error.stacktrace

\* In production, the storage calls of two fields of one resolver were
\* rejected with different messages, and both fields are in the response.
C23_Witness ==
  /\ production
  /\ \E a, b \in answered :
       /\ a.resolver = b.resolver
       /\ a.storage.kind = "rejected" /\ b.storage.kind = "rejected"
       /\ a.storage.detail # b.storage.detail
       /\ a.error.message = GenericMessage /\ b.error.message = GenericMessage

\* C24: a required relationship field whose target is absent fails with a
\* NOT_FOUND error, and an optional relationship field without a target is
\* null without an error.
C24_AbsentTarget ==
  \A a \in answered :
    (a.storage.kind = "absent" \/ a.fk = 0) =>
      IF Required(a.resolver)
      THEN a.error.code = NotFoundCode
      ELSE a.value = "null" /\ a.error = NoOutward

\* ------------------------------------------------------------------ variant claims

\* The filter arguments of the issues query that take effect, applied to row r.
IssueFilter(args, r) ==
  /\ TruthyNum(args.parentId) => r.parent = args.parentId.val
  /\ TruthyStr(args.keyDate) => r.keyDate = args.keyDate.val
  /\ TruthyStr(args.onSaleDate) => r.onSaleDate = args.onSaleDate.val

Primary(r) == r.deleted = 0 /\ r.variantOf = 0

C26_Resumable ==
  /\ \A u \in uploadLog : ~u.hadCover
  /\ \A i \in CoverIssues : covers[i] => \E u \in uploadLog : u.issue = i /\ u.ok
  /\ run.phase # "idle" =>
       /\ run.failedBefore \subseteq run.work
       /\ \A i \in CoverIssues : covers[i] /\ i \in run.work =>
            i \in run.uploadedNow

\* In a first run one issue got its cover and another failed; the second run
\* left the first alone and uploaded the cover of the other.
C26_Witness ==
  /\ run.no = 2
  /\ \E i, j \in CoverIssues :
       /\ i # j
       /\ i \notin run.work /\ covers[i]
       /\ j \in run.failedBefore /\ covers[j]
       /\ j \in run.uploadedNow /\ i \notin run.uploadedNow
       /\ [issue |-> j, hadCover |-> FALSE, ok |-> TRUE] \in uploadLog

\* C27: a call of cvFetch sends at most two requests: after a first 420 it
\* waits once and sends the request again, after a second 420 it throws, and
\* once two requests were answered the call has returned or thrown.
C27_RetryOnce ==
  LET s == cvCall.statuses
  IN /\ Len(s) <= 2
     /\ cvCall.waits <= 1
     /\ (Len(s) = 1 /\ s[1] = 420) =>
          cvCall.state = "open" /\ cvCall.retried /\ cvCall.waits = 1
     /\ Len(s) = 2 => s[1] = 420 /\ cvCall.waits = 1 /\ cvCall.state # "open"
     /\ (Len(s) = 2 /\ s[2] = 420) => cvCall.state = "threw"
     /\ (Len(s) >= 1 /\ s[Len(s)] = 200) => cvCall.state = "returned"

\* Two requests of one call were answered with 420, and the call threw.
C27_Witness ==
  /\ cvCall.statuses = <<420, 420>>
  /\ cvCall.state = "threw"
  /\ run.failed > 0

\* C30: when main finishes every issue of the run was counted once: as
\* uploaded, skipped or failed, and as processed.
C30_AllAccounted ==
  run.phase = "done" =>
    /\ run.uploaded + run.skipped + run.failed = run.total
    /\ run.processed = run.total
    /\ \A i \in CoverIssues : run.tally[i] = IF i \in run.work THEN 1 ELSE 0

\* main finished a run in which one issue was uploaded, one was skipped and
\* the series of the third failed.
C30_Witness ==
  /\ run.phase = "done"
  /\ run.total = 3
  /\ run.uploaded = 1 /\ run.skipped = 1 /\ run.failed = 1
  /\ 3 \in run.failedNow

====
